---- MODULE Spec2Model ----
(***************************************************************************)
(* Tarneeb (src/game.py, duplicated in src/model.py): the deal / bidding / *)
(* trick / scoring state machine of TarneebGame.                           *)
(*                                                                         *)
(* Control positions (pc) are the places where the engine waits for an     *)
(* input or stands at a loop head:                                         *)
(*   "loop"    the test of  while max(self.scores) < 60  in playGame       *)
(*   "deal"    after _resetValues(), before dealDeck()                     *)
(*   "bid"     getBid's input() for players[bidIdx]                        *)
(*   "trump"   getBids' input() for the trump suit                         *)
(*   "card"    getCardsFromPlayer's input() for players[Len(playedCards)+1]*)
(*   "score"   after the 13 rounds of playGame, before the contract rule   *)
(*   "crashed" an exception left playGame (IndexError is never caught)     *)
(*   "over"    playGame has returned                                       *)
(*   "deck"    SpecDeck: between two calls on a Deck and a Player          *)
(*   "hand"    SpecHand: between two calls on a Hand of src/main.py        *)
(* One action is one input together with everything the code does up to    *)
(* the next input.  The deck is scaled to NumRanks ranks of the four       *)
(* suits; SpecTrick runs determineWinner alone on cards of the full deck,  *)
(* SpecNextDeal runs the deal that follows a scored deal of Spec,          *)
(* SpecMatch runs the end of a deal of the full deck (the contract rule,   *)
(* the loop test and the end of the match), SpecDeck calls Deck.deal,      *)
(* Player.addCard and Player.organizeHand on a shuffled deck, and SpecHand *)
(* calls Hand.calculateCardValue of src/main.py on the cards of a hand.    *)
(***************************************************************************)
EXTENDS Integers, Sequences, FiniteSets, TLC

VARIABLES
    pc,               \* control position, see above
    scores,           \* self.scores            <<team 1, team 2>>
    isOver,           \* self.isOver
    deck,             \* self.deck.cards
    round,            \* self.round
    firstPlayedSuit,  \* self.firstPlayedSuit
    trump,            \* self.trump
    prevWinner,       \* self.prevWinner        (a seat, NoPlayer for None)
    curScores,        \* self.curScores         <<team 1, team 2>>
    playedCards,      \* self.playedCards       sequence of [card, player]
    highestBid,       \* self.highestBid        [bid, player]
    players,          \* self.players           the seats in their current order
    hands,            \* player.hand of every seat
    bids,             \* player.bid of every seat
    bidIdx,           \* position of getBids' for loop over self.players
    depth,            \* suspended getBids frames waiting for self.playRound()
    deals,            \* history: deals started since the initial state
    redeals,          \* history: no-bidder restarts since _resetValues
    tricks,           \* history: tricks determined since _resetValues
    discard,          \* history: cards played since _resetValues
    lastTrick,        \* history: the trick determineWinner saw last
    out               \* the engine's answer to the last input (what it printed)

vars == <<pc, scores, isOver, deck, round, firstPlayedSuit, trump, prevWinner,
          curScores, playedCards, highestBid, players, hands, bids, bidIdx,
          depth, deals, redeals, tricks, discard, lastTrick, out>>

(***************************************************************************)
(* Bounds of the model.                                                    *)
(***************************************************************************)
\* ranks of the scaled deck: the first NumRanks of Deck's 13 ranks; as in the
\* code, a hand holds as many cards as there are ranks, and a deal has as
\* many rounds
NumRanks == 2
\* nested no-bidder restarts (getBids -> playRound -> getBids ...)
MaxRedeals == 1
\* deals one match starts
MaxDeals == 1
\* the greatest number of cards asked of Deck.deal in SpecDeck
MaxDealt == 3
\* the greatest number of cards of a Hand in SpecHand
MaxHandCards == 2

(***************************************************************************)
(* Card and Deck                                                           *)
(***************************************************************************)
Suits == <<"h", "d", "c", "s">>

Ranks == <<"2", "3", "4", "5", "6", "7", "8", "9", "10", "J", "Q", "K", "A">>

SuitSet == {Suits[i] : i \in 1..Len(Suits)}

RankSet == {Ranks[i] : i \in 1..Len(Ranks)}

Card(s, r) == [suit |-> s, rank |-> r]

AllCards == {Card(s, r) : s \in SuitSet, r \in RankSet}

\* the ranks the scaled deck is built from
DeckRanks == SubSeq(Ranks, 1, NumRanks)

\* Deck.__init__: suit-major, rank-minor
NewDeck ==
    [k \in 1..(Len(Suits) * Len(DeckRanks)) |->
        Card(Suits[((k - 1) \div Len(DeckRanks)) + 1],
             DeckRanks[((k - 1) % Len(DeckRanks)) + 1])]

DeckSize == Len(NewDeck)

DeckCards == {NewDeck[k] : k \in 1..DeckSize}

Swap(s, i, j) == [s EXCEPT ![i] = s[j], ![j] = s[i]]

\* Deck.shuffle: random.shuffle permutes the list in place.  The outcomes
\* drawn here are the orders that differ from the given one by at most one
\* exchange of two positions.
ShuffleOutcomes(cards) ==
    {Swap(cards, i, j) : i \in 1..Len(cards), j \in 1..Len(cards)}

Min(a, b) == IF a < b THEN a ELSE b

\* Deck.deal that forgets to shorten self.cards
DeckDealKeepsCards(cards, numCards) ==
    [dealt |-> SubSeq(cards, 1, Min(numCards, Len(cards))), rest |-> cards]

\* Deck.deal: two slices, cards[:numCards] and cards[numCards:]
DeckDeal(cards, numCards) ==
    [dealt |-> SubSeq(cards, 1, Min(numCards, Len(cards))),
     rest  |-> SubSeq(cards, Min(numCards, Len(cards)) + 1, Len(cards))]

(***************************************************************************)
(* Player                                                                  *)
(***************************************************************************)
Seats == 1..4

\* playerNames of __main__: seat i is "Player i"
PlayerNames == <<1, 2, 3, 4>>

NoPlayer == 0

NoBid == 0

NoSuit == "None"

\* the dictionary of _cardSortKey
rankOrder(r) == CHOOSE i \in 1..Len(Ranks) : Ranks[i] = r

cardSortKey(card) == rankOrder(card.rank)

\* the dictionary of organizeHand
suitOrder(s) ==
    CASE s = "h" -> 0
      [] s = "s" -> 1
      [] s = "d" -> 2
      [] s = "c" -> 3

\* the sort key of organizeHand compared as Python compares tuples
KeyLess(a, b) ==
    \/ suitOrder(a.suit) < suitOrder(b.suit)
    \/ /\ suitOrder(a.suit) = suitOrder(b.suit)
       /\ (0 - cardSortKey(a)) < (0 - cardSortKey(b))

\* one step of a stable sort: card goes behind every card that is not greater
RECURSIVE InsertSorted(_, _)
InsertSorted(card, s) ==
    IF s = <<>> THEN <<card>>
    ELSE IF KeyLess(card, Head(s)) THEN <<card>> \o s
    ELSE <<Head(s)>> \o InsertSorted(card, Tail(s))

RECURSIVE Sorted(_)
Sorted(s) ==
    IF s = <<>> THEN <<>>
    ELSE InsertSorted(s[Len(s)], Sorted(SubSeq(s, 1, Len(s) - 1)))

\* Player.organizeHand that extends the hand by its sorted copy
organizeHandExtends(hand) == hand \o Sorted(hand)

\* Player.organizeHand
organizeHand(hand) == Sorted(hand)

\* Player.playCard that reads hand[cardIndex] without removing it
RemoveAtKeepsCard(s, k) == s

\* Player.playCard: list.pop(cardIndex) for an index Python accepts
RemoveAt(s, k) == SubSeq(s, 1, k - 1) \o SubSeq(s, k + 1, Len(s))

\* Python's list index: position (1-based) of index idx, 0 when out of range
PyIndex(s, idx) ==
    IF idx >= 0 /\ idx < Len(s) THEN idx + 1
    ELSE IF idx < 0 /\ idx >= 0 - Len(s) THEN Len(s) + idx + 1
    ELSE 0

SeqSet(s) == {s[k] : k \in 1..Len(s)}

\* list.index
IndexOf(s, x) == CHOOSE k \in 1..Len(s) : s[k] = x /\ \A m \in 1..(k - 1) : s[m] # x

\* playRound moving the starting player to the front and leaving the others
\* in their order
RotateLeaderFirst(s, startIndex) ==
    <<s[startIndex + 1]>> \o SubSeq(s, 1, startIndex) \o SubSeq(s, startIndex + 2, Len(s))

\* self.players[startIndex:] + self.players[:startIndex]   (startIndex 0-based)
Rotate(s, startIndex) == SubSeq(s, startIndex + 1, Len(s)) \o SubSeq(s, 1, startIndex)

(***************************************************************************)
(* TarneebGame: pure parts                                                 *)
(***************************************************************************)
\* range(13) of dealDeck: cards dealt to every player
CardsPerHand == NumRanks

\* range(13) of playGame: rounds of one deal
RoundsPerDeal == NumRanks

MinBid == 7

MaxBid == 13

TargetScore == 60

\* _getCardValue returning 2 for a trump, not twice its rank value
getCardValueFlatTrump(card, tr, lead) ==
    IF card.suit = tr THEN 2
    ELSE IF card.suit = lead THEN cardSortKey(card)
    ELSE 0

\* _getCardValue returning the rank value for every card that is not a trump
getCardValueAnySuit(card, tr, lead) ==
    IF card.suit = tr THEN 2 * cardSortKey(card)
    ELSE cardSortKey(card)

\* _getCardValue
getCardValue(card, tr, lead) ==
    IF card.suit = tr THEN 2 * cardSortKey(card)
    ELSE IF card.suit = lead THEN cardSortKey(card)
    ELSE 0

\* determineWinner: cardValues
cardValues(pcs, tr, lead) ==
    [k \in 1..Len(pcs) |-> getCardValue(pcs[k].card, tr, lead)]

MaxOf(s) == CHOOSE v \in SeqSet(s) : \A w \in SeqSet(s) : w <= v

\* determineWinner: cardValues.index(max(cardValues)), 1-based
winningCardIndex(pcs, tr, lead) ==
    IndexOf(cardValues(pcs, tr, lead), MaxOf(cardValues(pcs, tr, lead)))

\* determineWinner testing the name against "Player 1" alone
TeamOfFirstPlayer(p) == IF p = 1 THEN 1 ELSE 2

\* the team whose tally determineWinner and playGame use: 1 for
\* "Player 1" / "Player 3", 2 for the others
TeamOf(p) == IF p \in {1, 3} THEN 1 ELSE 2

\* Player.__init__ of every seat: self.hand = []
NewHands == [p \in Seats |-> <<>>]

\* cleanHands that clears nothing
cleanHandsKeepsCards(h) == h

\* cleanHands: the hands h of all players after clearHand
cleanHands(h) == [p \in Seats |-> <<>>]

\* dealDeck's two nested loops: n cards are still to be dealt, d is the deck,
\* h the hands; an exhausted deck is replaced by the shuffled new deck fresh
RECURSIVE DealLoop(_, _, _, _, _)
DealLoop(n, d, h, order, fresh) ==
    IF n = 0 THEN [deck |-> d, hands |-> h]
    ELSE LET dd == IF d = <<>> THEN fresh ELSE d
             p  == order[((CardsPerHand * Len(order) - n) % Len(order)) + 1]
             dl == DeckDeal(dd, 1)
         IN  DealLoop(n - 1, dl.rest, [h EXCEPT ![p] = Append(@, dl.dealt[1])],
                      order, fresh)

\* dealDeck: clean, deal, organize
dealDeck(d, h, order, fresh) ==
    LET r == DealLoop(CardsPerHand * Len(order), d, cleanHands(h), order, fresh)
    IN  [deck |-> r.deck, hands |-> [p \in Seats |-> organizeHand(r.hands[p])]]

\* entering playRound with round r: the first round goes to getBids, a later
\* one rotates the players so that the previous winner starts
EnterPlayRound(r, order, pw) ==
    IF r = 1 THEN [pc |-> "bid", players |-> order]
    ELSE [pc |-> "card",
          players |-> Rotate(order, IF pw # NoPlayer THEN IndexOf(order, pw) - 1 ELSE 0)]

\* playGame's loop test with the first team's total alone
matchGoesOnFirstTeam(s) == s[1] < TargetScore

\* playGame: the loop test  max(self.scores) < 60  on the totals s
matchGoesOn(s) == MaxOf(s) < TargetScore

\* the contract rule adding the bid, not the tricks, when the bid is made
contractRuleAddsBid(s, cur, hb) ==
    LET n  == TeamOf(hb.player)
        nn == IF n = 1 THEN 2 ELSE 1
    IN  IF cur[n] >= hb.bid
        THEN [s EXCEPT ![n] = @ + hb.bid]
        ELSE [s EXCEPT ![n] = @ - hb.bid, ![nn] = @ + cur[nn]]

\* the contract rule taking the tricks, not the bid, from a team that failed
contractRuleTakesTricks(s, cur, hb) ==
    LET n  == TeamOf(hb.player)
        nn == IF n = 1 THEN 2 ELSE 1
    IN  IF cur[n] >= hb.bid
        THEN [s EXCEPT ![n] = @ + cur[n]]
        ELSE [s EXCEPT ![n] = @ - cur[n], ![nn] = @ + cur[nn]]

\* the contract rule giving the other team its tricks in every deal
contractRuleBothScore(s, cur, hb) ==
    LET n  == TeamOf(hb.player)
        nn == IF n = 1 THEN 2 ELSE 1
    IN  IF cur[n] >= hb.bid
        THEN [s EXCEPT ![n] = @ + cur[n], ![nn] = @ + cur[nn]]
        ELSE [s EXCEPT ![n] = @ - hb.bid, ![nn] = @ + cur[nn]]

\* a contract rule whose failed bid only costs the bidding team its bid
contractRuleOnlyPenalty(s, cur, hb) ==
    LET n  == TeamOf(hb.player)
    IN  IF cur[n] >= hb.bid
        THEN [s EXCEPT ![n] = @ + cur[n]]
        ELSE [s EXCEPT ![n] = @ - hb.bid]

\* playGame: the contract rule on the totals s, the trick tallies cur and
\* the highest bid hb; n is the index of the bid winner's team
contractRule(s, cur, hb) ==
    LET n  == TeamOf(hb.player)
        nn == IF n = 1 THEN 2 ELSE 1
    IN  IF cur[n] >= hb.bid
        THEN [s EXCEPT ![n] = @ + cur[n]]
        ELSE [s EXCEPT ![n] = @ - hb.bid, ![nn] = @ + cur[nn]]

\* printWinners that always names the first team
printWinnersFirstTeam(s) == <<1>>

\* printWinners: the teams it names as winner, one per line it prints
printWinners(s) ==
    IF s[1] > s[2] THEN <<1>>
    ELSE IF s[2] > s[1] THEN <<2>>
    ELSE <<>>

NoCard == [suit |-> NoSuit, rank |-> ""]

NoTrick == [cards |-> <<>>, trump |-> NoSuit, lead |-> NoSuit, winner |-> NoPlayer]

Out(e, p, n, c, s) == [event |-> e, player |-> p, num |-> n, card |-> c, suit |-> s]

(***************************************************************************)
(* Inputs of the actors                                                    *)
(***************************************************************************)
\* answers to the bid prompt: the empty line, a text that is no number, and
\* the numbers at and next to the two ends of the accepted range
BidNumbers == {MinBid - 1, MinBid, MaxBid, MaxBid + 1}

BidResponses ==
    {[kind |-> "empty", v |-> 0], [kind |-> "text", v |-> 0]}
        \cup {[kind |-> "int", v |-> n] : n \in BidNumbers}

\* answers to the trump prompt: the four letters and one other text
TrumpResponses == {"h", "s", "d", "c", "x"}

\* answers to the card prompt: a text that is no number, the indices of a
\* full hand, the index one past them, and -1 (Python's last element)
CardResponses ==
    {[kind |-> "text", v |-> 0]}
        \cup {[kind |-> "int", v |-> n] : n \in (0 - 1)..CardsPerHand}

(***************************************************************************)
(* State machine                                                           *)
(***************************************************************************)
\* TarneebGame.__init__ followed by the call of playGame
Init ==
    /\ pc = "loop"
    /\ scores = <<0, 0>>
    /\ isOver = FALSE
    /\ deck \in ShuffleOutcomes(NewDeck)
    /\ round = 0
    /\ firstPlayedSuit = NoSuit
    /\ trump = NoSuit
    /\ prevWinner = NoPlayer
    /\ curScores = <<0, 0>>
    /\ playedCards = <<>>
    /\ highestBid = [bid |-> NoBid, player |-> NoPlayer]
    /\ players = PlayerNames
    /\ hands = NewHands
    /\ bids = [p \in Seats |-> NoBid]
    /\ bidIdx = 0
    /\ depth = 0
    /\ deals = 0
    /\ redeals = 0
    /\ tricks = 0
    /\ discard = {}
    /\ lastTrick = NoTrick
    /\ out = Out("", NoPlayer, 0, NoCard, NoSuit)

\* _resetValues that also clears the match totals
StartDealResetsScores ==
    /\ pc = "loop"
    /\ matchGoesOn(scores)
    /\ deals < MaxDeals
    /\ deck' \in ShuffleOutcomes(NewDeck)
    /\ round' = 0
    /\ firstPlayedSuit' = NoSuit
    /\ trump' = NoSuit
    /\ prevWinner' = NoPlayer
    /\ curScores' = <<0, 0>>
    /\ playedCards' = <<>>
    /\ highestBid' = [bid |-> NoBid, player |-> NoPlayer]
    /\ players' = PlayerNames
    /\ hands' = NewHands
    /\ bids' = [p \in Seats |-> NoBid]
    /\ pc' = "deal"
    /\ deals' = deals + 1
    /\ redeals' = 0
    /\ tricks' = 0
    /\ discard' = {}
    /\ out' = Out("reset", NoPlayer, 0, NoCard, NoSuit)
    /\ scores' = <<0, 0>>
    /\ UNCHANGED <<isOver, bidIdx, depth, lastTrick>>

\* _resetValues that keeps the Player objects of the last deal
StartDealKeepsPlayers ==
    /\ pc = "loop"
    /\ matchGoesOn(scores)
    /\ deals < MaxDeals
    /\ deck' \in ShuffleOutcomes(NewDeck)
    /\ round' = 0
    /\ firstPlayedSuit' = NoSuit
    /\ trump' = NoSuit
    /\ prevWinner' = NoPlayer
    /\ curScores' = <<0, 0>>
    /\ playedCards' = <<>>
    /\ highestBid' = [bid |-> NoBid, player |-> NoPlayer]
    /\ pc' = "deal"
    /\ deals' = deals + 1
    /\ redeals' = 0
    /\ tricks' = 0
    /\ discard' = {}
    /\ out' = Out("reset", NoPlayer, 0, NoCard, NoSuit)
    /\ UNCHANGED <<scores, isOver, bidIdx, depth, lastTrick, players, hands, bids>>

\* playGame: the loop test succeeds, _resetValues
StartDeal ==
    /\ pc = "loop"
    /\ matchGoesOn(scores)
    /\ deals < MaxDeals
    /\ deck' \in ShuffleOutcomes(NewDeck)
    /\ round' = 0
    /\ firstPlayedSuit' = NoSuit
    /\ trump' = NoSuit
    /\ prevWinner' = NoPlayer
    /\ curScores' = <<0, 0>>
    /\ playedCards' = <<>>
    /\ highestBid' = [bid |-> NoBid, player |-> NoPlayer]
    /\ players' = PlayerNames
    /\ hands' = NewHands
    /\ bids' = [p \in Seats |-> NoBid]
    /\ pc' = "deal"
    /\ deals' = deals + 1
    /\ redeals' = 0
    /\ tricks' = 0
    /\ discard' = {}
    /\ out' = Out("reset", NoPlayer, 0, NoCard, NoSuit)
    /\ UNCHANGED <<scores, isOver, bidIdx, depth, lastTrick>>

\* playGame: dealDeck, then the first round: round += 1, playRound, getBids
DealDeck ==
    /\ pc = "deal"
    /\ \E fresh \in ShuffleOutcomes(NewDeck) :
         LET r == dealDeck(deck, hands, players, fresh)
             e == EnterPlayRound(round + 1, players, prevWinner)
         IN  /\ deck' = r.deck
             /\ hands' = r.hands
             /\ round' = round + 1
             /\ pc' = e.pc
             /\ players' = e.players
    /\ bidIdx' = 1
    /\ out' = Out("dealt", NoPlayer, 0, NoCard, NoSuit)
    /\ UNCHANGED <<scores, isOver, firstPlayedSuit, trump, prevWinner, curScores,
                   playedCards, highestBid, bids, depth, deals, redeals, tricks, discard,
                   lastTrick>>

\* getBids testing highestBid > bid instead of highestBid >= bid
BidVerdictAllowsEqual(r, hb) ==
    IF r.kind = "empty" THEN "ok"
    ELSE IF r.kind = "text" THEN "number"
    ELSE IF ~(MinBid <= r.v /\ r.v <= MaxBid) THEN "range"
    ELSE IF hb # NoBid /\ hb > r.v THEN "higher"
    ELSE "ok"

\* getBid without the test 7 <= int(bid) <= 13
BidVerdictAnyNumber(r, hb) ==
    IF r.kind = "empty" THEN "ok"
    ELSE IF r.kind = "text" THEN "number"
    ELSE IF hb # NoBid /\ hb >= r.v THEN "higher"
    ELSE "ok"

\* getBid and the test of getBids for one answer r, hb the running highest
\* bid: "number" (ValueError), "range" (not in 7..13), "higher" (not above
\* the running highest bid) or "ok"
BidVerdict(r, hb) ==
    IF r.kind = "empty" THEN "ok"
    ELSE IF r.kind = "text" THEN "number"
    ELSE IF ~(MinBid <= r.v /\ r.v <= MaxBid) THEN "range"
    ELSE IF hb # NoBid /\ hb >= r.v THEN "higher"
    ELSE "ok"

\* the bid getBids works with: int(bid), or None for the empty line
BidValue(r) == IF r.kind = "int" THEN r.v ELSE NoBid

\* getBids recording the first bid only, never replacing it by a higher one
NewHighestFirstOnly(r, p) ==
    IF BidValue(r) # NoBid /\ highestBid.bid = NoBid
    THEN [bid |-> BidValue(r), player |-> p]
    ELSE highestBid

\* getBids: self.highestBid after an answer that ended the while loop
NewHighest(r, p) ==
    IF BidValue(r) # NoBid /\ (highestBid.bid = NoBid \/ BidValue(r) > highestBid.bid)
    THEN [bid |-> BidValue(r), player |-> p]
    ELSE highestBid

\* getBid / getBids: the answer is refused and the same player is asked again
BidReject ==
    /\ pc = "bid"
    /\ \E r \in BidResponses :
         /\ BidVerdict(r, highestBid.bid) # "ok"
         /\ out' = Out(BidVerdict(r, highestBid.bid), players[bidIdx], r.v, NoCard, NoSuit)
    /\ UNCHANGED <<pc, scores, isOver, deck, round, firstPlayedSuit, trump,
                   prevWinner, curScores, playedCards, highestBid, players, hands,
                   bids, bidIdx, depth, deals, redeals, tricks, discard, lastTrick>>

\* getBids: the answer is taken (a pass or a bid); the loop goes on to the
\* next player, or ends with a bidder and asks for the trump suit
BidRecord ==
    /\ pc = "bid"
    /\ \E r \in BidResponses :
         LET p == players[bidIdx] IN
         /\ BidVerdict(r, highestBid.bid) = "ok"
         /\ bidIdx < Len(players) \/ NewHighest(r, p).bid # NoBid
         /\ highestBid' = NewHighest(r, p)
         /\ bids' = [bids EXCEPT ![p] = BidValue(r)]
         /\ out' = Out(IF BidValue(r) = NoBid THEN "passes" ELSE "bids",
                       p, BidValue(r), NoCard, NoSuit)
    /\ IF bidIdx < Len(players)
       THEN bidIdx' = bidIdx + 1 /\ pc' = "bid"
       ELSE bidIdx' = bidIdx /\ pc' = "trump"
    /\ UNCHANGED <<scores, isOver, deck, round, firstPlayedSuit, trump, prevWinner,
                   curScores, playedCards, players, hands, depth, deals, redeals, tricks,
                   discard, lastTrick>>

\* getBids: the last answer is taken and nobody has bid: dealDeck() and a
\* nested playRound(), which (round being 1) asks for bids again
BidRestart ==
    /\ pc = "bid"
    /\ bidIdx = Len(players)
    /\ depth < MaxRedeals
    /\ \E r \in BidResponses :
         LET p == players[bidIdx] IN
         /\ BidVerdict(r, highestBid.bid) = "ok"
         /\ NewHighest(r, p).bid = NoBid
         /\ highestBid' = NewHighest(r, p)
         /\ bids' = [bids EXCEPT ![p] = BidValue(r)]
         /\ out' = Out("passes", p, BidValue(r), NoCard, NoSuit)
    /\ \E fresh \in ShuffleOutcomes(NewDeck) :
         LET d == dealDeck(deck, hands, players, fresh)
             e == EnterPlayRound(round, players, prevWinner)
         IN  /\ deck' = d.deck
             /\ hands' = d.hands
             /\ pc' = e.pc
             /\ players' = e.players
    /\ bidIdx' = 1
    /\ depth' = depth + 1
    /\ redeals' = redeals + 1
    /\ UNCHANGED <<scores, isOver, round, firstPlayedSuit, trump, prevWinner,
                   curScores, playedCards, deals, tricks, discard, lastTrick>>

\* getBids: self.trump = input(...) with one of the four letters; back in
\* playRound the players are rotated so that the bid winner starts, getCards
TrumpAccept ==
    /\ pc = "trump"
    /\ \E t \in TrumpResponses :
         /\ t \in {"h", "s", "d", "c"}
         /\ trump' = t
         /\ out' = Out("trump", highestBid.player, 0, NoCard, t)
    /\ players' = Rotate(players, IndexOf(players, highestBid.player) - 1)
    /\ pc' = "card"
    /\ UNCHANGED <<scores, isOver, deck, round, firstPlayedSuit, prevWinner,
                   curScores, playedCards, highestBid, hands, bids, bidIdx, depth,
                   deals, redeals, tricks, discard, lastTrick>>

\* getBids: self.trump = input(...) with any other text; asked again
TrumpReject ==
    /\ pc = "trump"
    /\ \E t \in TrumpResponses :
         /\ t \notin {"h", "s", "d", "c"}
         /\ trump' = t
         /\ out' = Out("invalid suit", highestBid.player, 0, NoCard, t)
    /\ UNCHANGED <<pc, scores, isOver, deck, round, firstPlayedSuit, prevWinner,
                   curScores, playedCards, highestBid, players, hands, bids, bidIdx,
                   depth, deals, redeals, tricks, discard, lastTrick>>

\* the player getCards is asking
Current == players[Len(playedCards) + 1]

\* set([card.suit for card in player.hand])
allSuitsInPlayersHand(p) == {hands[p][k].suit : k \in 1..Len(hands[p])}

\* getCardsFromPlayer without the test of the first played suit
CardVerdictAnySuit(r, p) ==
    IF r.kind = "text" THEN "number"
    ELSE IF PyIndex(hands[p], r.v) = 0 THEN "index"
    ELSE "ok"

\* getCardsFromPlayer for one answer r of player p, i = Len(playedCards):
\* "number" (ValueError), "index" (IndexError), "suit" (must follow) or "ok"
CardVerdict(r, p) ==
    IF r.kind = "text" THEN "number"
    ELSE IF PyIndex(hands[p], r.v) = 0 THEN "index"
    ELSE IF Len(playedCards) = 0 THEN "ok"
    ELSE IF firstPlayedSuit \in allSuitsInPlayersHand(p)
            /\ hands[p][PyIndex(hands[p], r.v)].suit # firstPlayedSuit THEN "suit"
    ELSE "ok"

\* getCardsFromPlayer: the answer is refused and the same player is asked again
CardReject ==
    /\ pc = "card"
    /\ \E r \in CardResponses :
         /\ CardVerdict(r, Current) \in {"number", "suit"}
         /\ out' = Out(CardVerdict(r, Current), Current, r.v,
                       IF CardVerdict(r, Current) = "suit"
                       THEN hands[Current][PyIndex(hands[Current], r.v)] ELSE NoCard,
                       NoSuit)
    /\ UNCHANGED <<pc, scores, isOver, deck, round, firstPlayedSuit, trump,
                   prevWinner, curScores, playedCards, highestBid, players, hands,
                   bids, bidIdx, depth, deals, redeals, tricks, discard, lastTrick>>

\* getCardsFromPlayer: player.hand[cardIndex] raises IndexError, which
\* nothing catches
CardIndexError ==
    /\ pc = "card"
    /\ \E r \in CardResponses :
         /\ CardVerdict(r, Current) = "index"
         /\ out' = Out("IndexError", Current, 0, NoCard, NoSuit)
    /\ pc' = "crashed"
    /\ UNCHANGED <<scores, isOver, deck, round, firstPlayedSuit, trump, prevWinner,
                   curScores, playedCards, highestBid, players, hands, bids, bidIdx,
                   depth, deals, redeals, tricks, discard, lastTrick>>

\* getCards: the card is taken from the hand and appended to playedCards;
\* after the last player determineWinner, and the return from playRound: to
\* the suspended getBids if there is one, else to playGame's loop
PlayCard ==
    /\ pc = "card"
    /\ \E r \in CardResponses :
         LET p    == Current
             pos  == PyIndex(hands[p], r.v)
             card == hands[p][pos]
             pcs  == Append(playedCards, [card |-> card, player |-> p])
             lead == IF Len(playedCards) = 0 THEN card.suit ELSE firstPlayedSuit
             w    == pcs[winningCardIndex(pcs, trump, lead)].player
             e    == EnterPlayRound(round + 1, players, w)
         IN
         /\ CardVerdict(r, p) = "ok"
         /\ hands' = [hands EXCEPT ![p] = RemoveAt(@, pos)]
         /\ discard' = discard \cup {card}
         /\ firstPlayedSuit' = lead
         /\ out' = Out("played", p, r.v, card, NoSuit)
         /\ IF Len(pcs) < Len(players)
            THEN /\ playedCards' = pcs
                 /\ UNCHANGED <<pc, round, prevWinner, curScores, players, bidIdx,
                                depth, tricks, lastTrick>>
            ELSE /\ playedCards' = <<>>
                 /\ prevWinner' = w
                 /\ curScores' = [curScores EXCEPT ![TeamOf(w)] = @ + 1]
                 /\ tricks' = tricks + 1
                 /\ lastTrick' = [cards |-> pcs, trump |-> trump, lead |-> lead,
                                  winner |-> w]
                 /\ IF depth > 0
                    THEN /\ depth' = depth - 1
                         /\ pc' = "trump"
                         /\ UNCHANGED <<round, players, bidIdx>>
                    ELSE IF round < RoundsPerDeal
                    THEN /\ round' = round + 1
                         /\ pc' = e.pc
                         /\ players' = e.players
                         /\ bidIdx' = IF e.pc = "bid" THEN 1 ELSE bidIdx
                         /\ depth' = depth
                    ELSE /\ pc' = "score"
                         /\ UNCHANGED <<round, players, bidIdx, depth>>
    /\ UNCHANGED <<scores, isOver, deck, trump, highestBid, bids, deals, redeals>>

\* playGame: the contract rule after the rounds of a deal
Score ==
    /\ pc = "score"
    /\ scores' = contractRule(scores, curScores, highestBid)
    /\ pc' = "loop"
    /\ out' = Out("scored", NoPlayer, 0, NoCard, NoSuit)
    /\ UNCHANGED <<isOver, deck, round, firstPlayedSuit, trump, prevWinner,
                   curScores, playedCards, highestBid, players, hands, bids, bidIdx,
                   depth, deals, redeals, tricks, discard, lastTrick>>

Next ==
    \/ StartDeal
    \/ DealDeck
    \/ BidReject
    \/ BidRecord
    \/ BidRestart
    \/ TrumpAccept
    \/ TrumpReject
    \/ CardReject
    \/ CardIndexError
    \/ PlayCard
    \/ Score

Spec == Init /\ [][Next]_vars

(***************************************************************************)
(* determineWinner on its own, over cards of the full 52-card deck: a      *)
(* trump suit and four distinct cards played by seats 1..4 in seat order.  *)
(***************************************************************************)
\* the ranks the tricks of SpecTrick are drawn from
TrickRanks == {"2", "5", "7", "10", "J", "K", "A"}

TrickCards == {c \in AllCards : c.rank \in TrickRanks}

InitTrick ==
    /\ pc = "trick"
    /\ trump \in SuitSet
    /\ \E c1, c2, c3, c4 \in TrickCards :
         /\ Cardinality({c1, c2, c3, c4}) = 4
         /\ playedCards = <<[card |-> c1, player |-> 1], [card |-> c2, player |-> 2],
                            [card |-> c3, player |-> 3], [card |-> c4, player |-> 4]>>
         /\ firstPlayedSuit = c1.suit
         /\ discard = {c1, c2, c3, c4}
    /\ scores = <<0, 0>>
    /\ isOver = FALSE
    /\ deck = <<>>
    /\ round = 1
    /\ prevWinner = NoPlayer
    /\ curScores = <<0, 0>>
    /\ highestBid = [bid |-> MinBid, player |-> 1]
    /\ players = PlayerNames
    /\ hands = NewHands
    /\ bids = [p \in Seats |-> IF p = 1 THEN MinBid ELSE NoBid]
    /\ bidIdx = Len(PlayerNames)
    /\ depth = 0
    /\ deals = 1
    /\ redeals = 0
    /\ tricks = 0
    /\ lastTrick = NoTrick
    /\ out = Out("played", Len(PlayerNames), 0, playedCards[Len(PlayerNames)].card, NoSuit)

\* determineWinner and the end of getCards
TrickDetermine ==
    /\ pc = "trick"
    /\ LET w == playedCards[winningCardIndex(playedCards, trump, firstPlayedSuit)].player
       IN  /\ prevWinner' = w
           /\ curScores' = [curScores EXCEPT ![TeamOf(w)] = @ + 1]
           /\ lastTrick' = [cards |-> playedCards, trump |-> trump,
                            lead |-> firstPlayedSuit, winner |-> w]
    /\ playedCards' = <<>>
    /\ tricks' = tricks + 1
    /\ pc' = "trick done"
    /\ UNCHANGED <<scores, isOver, deck, round, firstPlayedSuit, trump, highestBid,
                   players, hands, bids, bidIdx, depth, deals, redeals, discard, out>>

SpecTrick == InitTrick /\ [][TrickDetermine]_vars

(***************************************************************************)
(* The end of a deal of the full deck: the state after its 13 tricks, with *)
(* totals that let the deal start, then the contract rule, the loop test   *)
(* and either the reset for the next deal or printWinners.                 *)
(***************************************************************************)
\* range(13) of playGame and dealDeck
FullDeal == 13

\* totals of a team before the deal that is scored
MatchScores == {0 - 7, 0, 47, 53, 59}

\* the winning bid of the deal that is scored
MatchBids == {MinBid, 9, MaxBid}

\* the four aces as the last trick of the deal, led by Player 1; hearts are
\* trump and the ace of hearts is played by seat w
AceTrick(w) ==
    LET others == <<"s", "d", "c">>
    IN  [k \in 1..4 |->
            [card   |-> Card(IF k = w THEN "h"
                             ELSE others[IF k < w THEN k ELSE k - 1], "A"),
             player |-> PlayerNames[k]]]

InitMatch ==
    /\ pc = "score"
    /\ scores \in {s \in MatchScores \X MatchScores : matchGoesOn(s)}
    /\ isOver = FALSE
    /\ deck = <<>>
    /\ round = FullDeal
    /\ trump = "h"
    /\ \E t \in 0..FullDeal, w \in 1..2 :
         /\ w = (IF t > 0 THEN 1 ELSE 2)
         /\ curScores = <<t, FullDeal - t>>
         /\ firstPlayedSuit = AceTrick(w)[1].card.suit
         /\ prevWinner =
                AceTrick(w)[winningCardIndex(AceTrick(w), "h", firstPlayedSuit)].player
         /\ lastTrick = [cards |-> AceTrick(w), trump |-> "h",
                         lead |-> firstPlayedSuit, winner |-> prevWinner]
         /\ out = Out("played", 4, 0, AceTrick(w)[4].card, NoSuit)
    /\ playedCards = <<>>
    /\ \E b \in MatchBids, p \in Seats :
         /\ highestBid = [bid |-> b, player |-> p]
         /\ bids = [q \in Seats |-> IF q = p THEN b ELSE NoBid]
    /\ players = PlayerNames
    /\ hands = NewHands
    /\ bidIdx = Len(PlayerNames)
    /\ depth = 0
    /\ deals = 0
    /\ redeals = 0
    /\ tricks = FullDeal
    /\ discard = AllCards

\* playGame: the loop test fails, printWinners, self.isOver = True
EndMatch ==
    /\ pc = "loop"
    /\ ~matchGoesOn(scores)
    /\ out' = IF printWinners(scores) = <<>>
              THEN Out("", NoPlayer, 0, NoCard, NoSuit)
              ELSE Out("won", NoPlayer, printWinners(scores)[1], NoCard, NoSuit)
    /\ isOver' = TRUE
    /\ pc' = "over"
    /\ UNCHANGED <<scores, deck, round, firstPlayedSuit, trump, prevWinner,
                   curScores, playedCards, highestBid, players, hands, bids, bidIdx,
                   depth, deals, redeals, tricks, discard, lastTrick>>

NextMatch ==
    \/ Score
    \/ StartDeal
    \/ EndMatch

SpecMatch == InitMatch /\ [][NextMatch]_vars

(***************************************************************************)
(* The deal after a scored deal: the state in which a first deal of Spec   *)
(* ends (Player 1 has bid 7 with hearts as trump, each team has taken a    *)
(* trick), then the whole of Next.                                         *)
(***************************************************************************)
\* the last trick of that deal, led by Player 3 and won by Player 2
EndTrick ==
    <<[card |-> Card("d", "2"), player |-> 3], [card |-> Card("d", "3"), player |-> 4],
      [card |-> Card("c", "2"), player |-> 1], [card |-> Card("h", "3"), player |-> 2]>>

\* the end of that deal, before the contract rule
EndOfDeal ==
    /\ pc = "score"
    /\ scores = <<0, 0>>
    /\ isOver = FALSE
    /\ deck = <<>>
    /\ round = RoundsPerDeal
    /\ firstPlayedSuit = "d"
    /\ trump = "h"
    /\ prevWinner = 2
    /\ curScores = <<1, RoundsPerDeal - 1>>
    /\ playedCards = <<>>
    /\ highestBid = [bid |-> MinBid, player |-> 1]
    /\ players = <<3, 4, 1, 2>>
    /\ hands = [p \in Seats |-> <<>>]
    /\ bids = [p \in Seats |-> IF p = 1 THEN MinBid ELSE NoBid]
    /\ bidIdx = Len(PlayerNames)
    /\ depth = 0
    /\ redeals = 0
    /\ tricks = RoundsPerDeal
    /\ discard = DeckCards
    /\ lastTrick = [cards |-> EndTrick, trump |-> "h", lead |-> "d", winner |-> 2]
    /\ out = Out("played", 2, 0, Card("h", "3"), NoSuit)

InitNextDeal == EndOfDeal /\ deals = 0

SpecNextDeal == InitNextDeal /\ [][Next]_vars

(***************************************************************************)
(* Deck and Player on their own: a shuffled deck, of which any number of   *)
(* cards up to MaxDealt is dealt at a time and added to the hand of the    *)
(* first player, who organizes the hand at any time.                       *)
(***************************************************************************)
\* numCards of Deck.deal
DealSizes == 0..MaxDealt

\* Player.addCard for every card of the sequence cards
addCards(hand, cards) == hand \o cards

\* Deck() and shuffle(), Player(name)
InitDeck ==
    /\ pc = "deck"
    /\ deck \in ShuffleOutcomes(NewDeck)
    /\ hands = NewHands
    /\ scores = <<0, 0>>
    /\ isOver = FALSE
    /\ round = 0
    /\ firstPlayedSuit = NoSuit
    /\ trump = NoSuit
    /\ prevWinner = NoPlayer
    /\ curScores = <<0, 0>>
    /\ playedCards = <<>>
    /\ highestBid = [bid |-> NoBid, player |-> NoPlayer]
    /\ players = PlayerNames
    /\ bids = [p \in Seats |-> NoBid]
    /\ bidIdx = 0
    /\ depth = 0
    /\ deals = 0
    /\ redeals = 0
    /\ tricks = 0
    /\ discard = {}
    /\ lastTrick = NoTrick
    /\ out = Out("", NoPlayer, 0, NoCard, NoSuit)

\* deck.deal(numCards), and addCard of every card it returned
DeckDealTo ==
    /\ pc = "deck"
    /\ \E numCards \in DealSizes :
         LET r == DeckDeal(deck, numCards)
             p == PlayerNames[1]
         IN  /\ deck' = r.rest
             /\ hands' = [hands EXCEPT ![p] = addCards(@, r.dealt)]
             /\ out' = Out("deal", p, numCards, NoCard, NoSuit)
    /\ UNCHANGED <<pc, scores, isOver, round, firstPlayedSuit, trump, prevWinner,
                   curScores, playedCards, highestBid, players, bids, bidIdx, depth,
                   deals, redeals, tricks, discard, lastTrick>>

\* player.organizeHand()
OrganizeHand ==
    /\ pc = "deck"
    /\ LET p == PlayerNames[1]
       IN  /\ hands' = [hands EXCEPT ![p] = organizeHand(@)]
           /\ out' = Out("organized", p, 0, NoCard, NoSuit)
    /\ UNCHANGED <<pc, scores, isOver, deck, round, firstPlayedSuit, trump,
                   prevWinner, curScores, playedCards, highestBid, players, bids,
                   bidIdx, depth, deals, redeals, tricks, discard, lastTrick>>

NextDeck ==
    \/ DeckDealTo
    \/ OrganizeHand

SpecDeck == InitDeck /\ [][NextDeck]_vars

(***************************************************************************)
(* Properties                                                              *)
(***************************************************************************)
HandCards(p) == SeqSet(hands[p])

AllHandsEmpty == \A p \in Seats : hands[p] = <<>>

CardsInHands == UNION {HandCards(p) : p \in Seats}

\* every hand holds CardsPerHand cards and the hands together hold every card
\* of the deck once
HandsDealt ==
    /\ \A p \in Seats : Len(hands[p]) = CardsPerHand
    /\ \A p \in Seats : Cardinality(HandCards(p)) = CardsPerHand
    /\ \A p, q \in Seats : p # q => HandCards(p) \cap HandCards(q) = {}
    /\ CardsInHands = DeckCards

\* a trick has been determined
TrickSeen == lastTrick # NoTrick

\* the card of the last trick's winner
WinningCard ==
    (CHOOSE e \in SeqSet(lastTrick.cards) : e.player = lastTrick.winner).card

\* the values determineWinner computed for the last trick
LastValues == cardValues(lastTrick.cards, lastTrick.trump, lastTrick.lead)

\* C1: in every trick, a played card of the trump suit wins over every played
\* card that is not of the trump suit, whatever the ranks: when a trump was
\* played, the winner's card is a trump
C1_TrumpBeatsNonTrump ==
    TrickSeen =>
        ((\E k \in 1..Len(lastTrick.cards) : lastTrick.cards[k].card.suit = lastTrick.trump)
            => WinningCard.suit = lastTrick.trump)

\* C2: in every reachable trick the values of the four played cards have a
\* unique maximum
C2_UniqueMaximum ==
    TrickSeen =>
        Cardinality({k \in 1..Len(LastValues) : LastValues[k] = MaxOf(LastValues)}) = 1

\* the player determineWinner returns for the last trick's pairs taken in the
\* order f, with the same trump and lead suit
WinnerInOrder(f) ==
    LET pcs == [k \in 1..Len(lastTrick.cards) |-> lastTrick.cards[f[k]]]
    IN  pcs[winningCardIndex(pcs, lastTrick.trump, lastTrick.lead)].player

\* C3: for a fixed trump and lead suit, determineWinner returns the same
\* player for every order of the same four (card, player) pairs
C3_WinnerIgnoresOrder ==
    TrickSeen =>
        \A f \in Permutations(1..Len(lastTrick.cards)) : WinnerInOrder(f) = lastTrick.winner

\* C4: a deal is scored after exactly RoundsPerDeal tricks with all hands
\* empty, and while a dealt deal is bid on or played (not yet at scoring) the
\* hands are not all empty; also for a deal restarted after an all-pass
C4_ScoredAfterAllTricks ==
    /\ pc = "score" => tricks = RoundsPerDeal /\ AllHandsEmpty
    /\ pc \in {"bid", "trump", "card", "crashed"} => ~AllHandsEmpty

\* C4 without the restarted deals (what the code does keep)
C4_WithoutRestart == redeals = 0 => C4_ScoredAfterAllTricks

\* C5: the step in which the fourth player's pass leaves no bidder deals four
\* new full hands that together are the whole deck, leaves the deck empty,
\* starts bidding again at the first player with no bid recorded, and keeps
\* both match scores
C5_RedealKeepsScores ==
    [][redeals' > redeals =>
          /\ \A p \in Seats : bids[p] = NoBid \/ p = players[bidIdx]
          /\ highestBid.bid = NoBid
          /\ HandsDealt'
          /\ deck' = <<>>
          /\ pc' = "bid" /\ bidIdx' = 1 /\ players' = players
          /\ highestBid' = [bid |-> NoBid, player |-> NoPlayer]
          /\ \A p \in Seats : bids'[p] = NoBid
          /\ scores' = scores
          /\ discard' = {} /\ tricks' = 0]_vars

\* a no-bidder restart has just dealt new hands
C5_Witness ==
    /\ redeals = 1 /\ pc = "bid" /\ bidIdx = 1 /\ out.event = "passes"
    /\ HandsDealt /\ scores = <<0, 0>>

\* C6: once a valid trump is chosen and a card of the deal has been played,
\* the trump suit does not change and is not asked for again before the next
\* deal's reset
C6_TrumpFixed ==
    [][(trump \in SuitSet /\ discard # {} /\ pc' # "deal")
          => (trump' = trump /\ pc' # "trump")]_vars

\* C6 without the restarted deals
C6_WithoutRestart ==
    [][(redeals = 0 /\ trump \in SuitSet /\ discard # {} /\ pc' # "deal")
          => (trump' = trump /\ pc' # "trump")]_vars

\* C7: when a trick starts, its leader is the bid winner if it is the first
\* trick of the deal and the previous trick's winner otherwise
C7_TrickLeader ==
    (pc = "card" /\ playedCards = <<>>) =>
        players[1] = (IF tricks = 0 THEN highestBid.player ELSE prevWinner)

\* C7 without the restarted deals
C7_WithoutRestart == redeals = 0 => C7_TrickLeader

\* C8: deck, hands and the cards played in the deal together are the whole
\* deck, every card once
C8_CardsConserved ==
    /\ Len(deck) + Len(hands[1]) + Len(hands[2]) + Len(hands[3]) + Len(hands[4])
           + Cardinality(discard) = DeckSize
    /\ SeqSet(deck) \cup CardsInHands \cup discard = DeckCards
    /\ SeqSet(playedCards) \subseteq {[card |-> c, player |-> p] : c \in discard, p \in Seats}

\* cards are in the deck, in three hands and on the table in a restarted deal
C8_Witness ==
    /\ redeals = 1 /\ pc = "card" /\ Len(playedCards) = 3 /\ tricks = 1
    /\ Cardinality(discard) = 7

\* C9: after dealDeck (while the bids are collected) every hand holds
\* CardsPerHand cards and the cards of the four hands are pairwise distinct
C9_HandsAfterDeal == pc = "bid" => HandsDealt

\* dealDeck has returned at the start of a deal
C9_Witness == out.event = "dealt" /\ pc = "bid" /\ HandsDealt /\ deck = <<>>

\* C10: a numeric answer v to the bid prompt is accepted iff 7 <= v <= 13 and
\* (no bid is running or v is above the running highest bid); a refused one
\* leaves the prompt with the same player and the bid state as it was
C10_BidAccepted ==
    [][(pc = "bid" /\ out'.event \in {"bids", "range", "higher"} /\ out' # out) =>
          LET v == out'.num
              p == players[bidIdx]
          IN  /\ out'.player = p
              /\ (out'.event = "bids") <=>
                     (7 <= v /\ v <= 13 /\ (highestBid.bid = NoBid \/ v > highestBid.bid))
              /\ out'.event = "bids" =>
                     /\ highestBid' = [bid |-> v, player |-> p]
                     /\ bids' = [bids EXCEPT ![p] = v]
                     /\ \/ pc' = "bid" /\ bidIdx' = bidIdx + 1
                        \/ pc' = "trump" /\ bidIdx = Len(players)
              /\ out'.event # "bids" =>
                     /\ pc' = "bid" /\ bidIdx' = bidIdx /\ players' = players
                     /\ highestBid' = highestBid /\ bids' = bids]_vars

\* a bid equal to the running highest bid has been refused
C10_Witness ==
    /\ pc = "bid" /\ out.event = "higher" /\ out.num = highestBid.bid
    /\ out.player = players[bidIdx] /\ bids[out.player] = NoBid

\* C11: a player who is not the leader and holds a card of the lead suit has
\* a chosen card accepted only if it is of the lead suit; one who holds none
\* has every card of the hand accepted; the leader's card is always accepted
\* and its suit becomes the lead suit of the trick
C11_FollowSuit ==
    [][(pc = "card" /\ out'.event \in {"played", "suit"} /\ out' # out) =>
          LET p      == Current
              card   == out'.card
              leader == playedCards = <<>>
              holds  == \E k \in 1..Len(hands[p]) : hands[p][k].suit = firstPlayedSuit
          IN  /\ out'.player = p
              /\ card \in HandCards(p)
              /\ (out'.event = "played") <=>
                     (leader \/ ~holds \/ card.suit = firstPlayedSuit)
              /\ out'.event = "played" =>
                     /\ card \notin SeqSet(hands'[p])
                     /\ firstPlayedSuit' = (IF leader THEN card.suit ELSE firstPlayedSuit)
              /\ out'.event = "suit" =>
                     /\ hands' = hands /\ playedCards' = playedCards
                     /\ pc' = "card" /\ firstPlayedSuit' = firstPlayedSuit]_vars

\* a card of another suit has been refused to a player who holds the lead suit
C11_Witness ==
    /\ pc = "card" /\ out.event = "suit" /\ playedCards # <<>>
    /\ out.player = Current /\ out.card \in HandCards(Current)
    /\ out.card.suit # firstPlayedSuit
    /\ firstPlayedSuit \in allSuitsInPlayersHand(Current)

\* a player who holds no card of the lead suit has played a card of another suit
C11_VoidWitness ==
    /\ pc = "card" /\ out.event = "played" /\ Len(playedCards) > 1
    /\ out.card.suit # firstPlayedSuit

\* C12: an integer answer to the card prompt that is outside
\* [0, len(hand)) is refused: no card leaves the hand, nothing is added to
\* the played cards, the same player is asked again, and the engine does
\* not abort
C12_IndexRejected ==
    [][(/\ pc = "card" /\ out' # out
        /\ \/ out'.event = "IndexError"
           \/ /\ out'.event = "played"
              /\ (out'.num < 0 \/ out'.num >= Len(hands[Current])))
          => /\ hands' = hands
             /\ playedCards' = playedCards
             /\ discard' = discard
             /\ pc' = "card"]_vars

\* C12 for the answers from 0 on (what the code does keep): such an answer
\* is played only if it is below len(hand)
C12_PlayedInRange ==
    [][(pc = "card" /\ out'.event = "played" /\ out' # out /\ out'.num >= 0)
          => (out'.num < Len(hands[Current])
              /\ out'.card = hands[Current][out'.num + 1])]_vars

\* the state C13 lists, apart from the trump suit
RejectKeeps ==
    /\ pc' = pc /\ players' = players /\ bidIdx' = bidIdx
    /\ hands' = hands /\ playedCards' = playedCards
    /\ firstPlayedSuit' = firstPlayedSuit
    /\ highestBid' = highestBid /\ bids' = bids
    /\ curScores' = curScores /\ round' = round /\ scores' = scores

\* C13: a refused card (the suit was not followed) and a refused trump entry
\* ask the same actor again and leave hands, played cards, lead suit, trump,
\* bid state, trick tallies, round counter and match scores as they were
C13_RejectKeepsState ==
    [][(out'.event \in {"suit", "invalid suit"} /\ out' # out)
          => (RejectKeeps /\ trump' = trump)]_vars

\* C13 without the trump suit (what the code does keep)
C13_ExceptTrump ==
    [][(out'.event \in {"suit", "invalid suit"} /\ out' # out) => RejectKeeps]_vars

\* the team of the bid winner and the other team
BidTeam == TeamOf(highestBid.player)

OtherTeam == IF BidTeam = 1 THEN 2 ELSE 1

\* the step that applies the contract rule
Scoring == pc = "score" /\ pc' = "loop"

\* C14: at the end of a deal, if the bid winner's team took at least as
\* many tricks t as the winning bid b, its total grows by exactly t and the
\* other team's total stays
C14_BidMade ==
    [][(Scoring /\ curScores[BidTeam] >= highestBid.bid)
          => /\ scores'[BidTeam] = scores[BidTeam] + curScores[BidTeam]
             /\ scores'[OtherTeam] = scores[OtherTeam]
             /\ curScores' = curScores /\ highestBid' = highestBid]_vars

\* a bid of 9 by Player 1 has been made with 10 tricks, from 47 - 0
C14_Witness ==
    /\ pc = "loop" /\ out.event = "scored"
    /\ highestBid = [bid |-> 9, player |-> 1] /\ curScores = <<10, 3>>
    /\ scores = <<57, 0>>

\* C15: at the end of a deal, if the bid winner's team took fewer tricks t
\* than the winning bid b, its total falls by exactly b and the other
\* team's total grows by its own tricks, which are all the tricks of the
\* deal but t
C15_BidFailed ==
    [][(Scoring /\ curScores[BidTeam] < highestBid.bid)
          => /\ scores'[BidTeam] = scores[BidTeam] - highestBid.bid
             /\ scores'[OtherTeam] = scores[OtherTeam] + curScores[OtherTeam]
             /\ curScores[OtherTeam] = tricks - curScores[BidTeam]
             /\ tricks = round /\ curScores' = curScores]_vars

\* a played deal has been scored against the bid winner's team, which had
\* taken a trick
C15_Witness ==
    /\ pc = "loop" /\ out.event = "scored" /\ tricks = RoundsPerDeal
    /\ curScores[BidTeam] = 1 /\ curScores[OtherTeam] = RoundsPerDeal - 1
    /\ scores[BidTeam] = 0 - highestBid.bid
    /\ scores[OtherTeam] = RoundsPerDeal - 1

\* both totals are below the target
BothBelow == scores[1] < TargetScore /\ scores[2] < TargetScore

\* C16: after a deal is scored a new deal starts iff both totals are below
\* 60; otherwise the loop ends, and isOver becomes true only then
C16_LoopTest ==
    /\ [](pc = "loop" => /\ (ENABLED StartDeal) <=> BothBelow
                         /\ (ENABLED EndMatch) <=> ~BothBelow)
    /\ [][(pc = "loop" /\ pc' # "loop")
             => IF BothBelow THEN pc' = "deal" /\ ~isOver' /\ scores' = scores
                ELSE pc' = "over" /\ isOver' /\ scores' = scores]_vars
    /\ [][(isOver' /\ ~isOver) => (pc = "loop" /\ ~BothBelow)]_vars
    /\ [](isOver => pc = "over")

\* the match has ended on the second team's total alone
C16_Witness ==
    /\ pc = "over" /\ isOver /\ scores[2] >= TargetScore /\ scores[1] < scores[2]
    /\ out.event = "won"

\* C17: when the match has ended, one winner notification has been
\* produced, and it names the team whose total is strictly higher
C17_OneWinner ==
    pc = "over" =>
        /\ out.event = "won"
        /\ out.num \in {1, 2}
        /\ scores[out.num] > scores[3 - out.num]
        /\ printWinners(scores) = <<out.num>>

\* the second team has been named the winner
C17_Witness ==
    /\ pc = "over" /\ out.event = "won" /\ out.num = 2
    /\ scores[2] > scores[1] /\ TeamOf(highestBid.player) = 2

\* a match end with both totals at or above the target, or with equal totals
TiedEnd ==
    /\ pc = "over"
    /\ \/ scores[1] >= TargetScore /\ scores[2] >= TargetScore
       \/ scores[1] = scores[2] /\ scores[1] >= TargetScore

\* C18 as claimed, of the match ends that are reached: the match has ended
\* with both totals at or above 60, or with equal totals at or above 60
C18_EndsTied == pc = "over" => TiedEnd

\* C18 amended: at every match end exactly one total is at or above 60, and
\* the other total is below it
C18_NoTiedEnd ==
    pc = "over" =>
        /\ ~TiedEnd
        /\ \E n \in 1..2 : scores[n] >= TargetScore /\ scores[3 - n] < TargetScore

\* the match has ended by a failed bid: the other team went over the target
C18_Witness ==
    /\ pc = "over" /\ curScores[BidTeam] < highestBid.bid
    /\ scores[OtherTeam] >= TargetScore /\ scores[BidTeam] < TargetScore

\* the step of Deck.deal
Dealing == pc = "deck" /\ out'.event = "deal" /\ out' # out

\* C19: Deck.deal(n) with n above the number of cards left hands out no
\* card (it fails); with n at most that number it removes and returns
\* exactly the first n cards and keeps the rest in their order
C19_DealChecksCount ==
    [][Dealing =>
          LET n == out'.num
              p == out'.player
          IN  IF n > Len(deck)
              THEN deck' = deck /\ hands' = hands
              ELSE /\ hands'[p] = hands[p] \o SubSeq(deck, 1, n)
                   /\ deck' = SubSeq(deck, n + 1, Len(deck))]_vars

\* C19 for n at most the number of cards left (what the code does keep)
C19_DealInRange ==
    [][(Dealing /\ out'.num <= Len(deck))
          => /\ hands'[out'.player] = hands[out'.player] \o SubSeq(deck, 1, out'.num)
             /\ deck' = SubSeq(deck, out'.num + 1, Len(deck))]_vars

\* how often card c is in hand h
CountIn(h, c) == Cardinality({k \in 1..Len(h) : h[k] = c})

\* C20: organizeHand keeps the size of the hand and its cards, each as
\* often as before, and organizing the organized hand again gives the same
\* order
C20_OrganizeIdempotent ==
    [][(pc = "deck" /\ out'.event = "organized" /\ out' # out) =>
          LET p == out'.player
          IN  /\ Len(hands'[p]) = Len(hands[p])
              /\ \A c \in DeckCards : CountIn(hands'[p], c) = CountIn(hands[p], c)
              /\ organizeHand(hands'[p]) = hands'[p]
              /\ deck' = deck]_vars

\* a hand of three cards or more of two suits or more, dealt in two calls
\* or more, has been organized
C20_Witness ==
    /\ pc = "deck" /\ out.event = "organized"
    /\ Len(hands[out.player]) > MaxDealt
    /\ Cardinality({hands[out.player][k].suit : k \in 1..Len(hands[out.player])}) > 1
    /\ KeyLess(hands[out.player][1], hands[out.player][2])

\* the cards of the last trick
LastCards == {lastTrick.cards[k].card : k \in 1..Len(lastTrick.cards)}

\* C21: in a trick whose four cards are all of the trump suit (so the lead
\* suit is the trump suit) the winner is the player who played the card of
\* the highest rank in the order 2 < 3 < ... < 10 < J < Q < K < A
C21_HighestTrumpWins ==
    (TrickSeen /\ \A c \in LastCards : c.suit = lastTrick.trump) =>
        /\ lastTrick.lead = lastTrick.trump
        /\ \A c \in LastCards : rankOrder(c.rank) <= rankOrder(WinningCard.rank)
        /\ \A k \in 1..Len(lastTrick.cards) :
              lastTrick.cards[k].card = WinningCard
                  => lastTrick.cards[k].player = lastTrick.winner

\* hearts are trump, the four players have played 5, J, 2 and A of hearts,
\* and the fourth player has won
C21_Witness ==
    /\ TrickSeen /\ lastTrick.trump = "h" /\ lastTrick.lead = "h"
    /\ lastTrick.cards = <<[card |-> Card("h", "5"), player |-> 1],
                           [card |-> Card("h", "J"), player |-> 2],
                           [card |-> Card("h", "2"), player |-> 3],
                           [card |-> Card("h", "A"), player |-> 4]>>
    /\ lastTrick.winner = 4 /\ prevWinner = 4

\* C29: the winner of every trick played a card of the trump suit or of the
\* lead suit; a card of neither suit, whose value is 0, never wins
C29_WinnerTrumpOrLead ==
    TrickSeen =>
        /\ WinningCard.suit \in {lastTrick.trump, lastTrick.lead}
        /\ getCardValue(WinningCard, lastTrick.trump, lastTrick.lead) > 0
        /\ lastTrick.cards[1].card.suit = lastTrick.lead

\* a card of neither suit and of a higher rank than the winner's card was
\* played in the trick
C29_Witness ==
    /\ TrickSeen
    /\ \E c \in LastCards :
          /\ c.suit \notin {lastTrick.trump, lastTrick.lead}
          /\ rankOrder(c.rank) > rankOrder(WinningCard.rank)

\* the step in which playGame deals, and the step in which getBids deals
\* again after an all-pass
DealByPlayGame == pc = "deal" /\ pc' # "deal"

DealByGetBids == redeals' > redeals

\* the cards one dealDeck hands out
CardsDealt == CardsPerHand * Len(players)

\* C22: whenever dealDeck runs, the deck holds every card it is going to
\* deal, so the branch that replaces an exhausted deck is never taken
C22_NoRefill ==
    [][(DealByPlayGame \/ DealByGetBids) => Len(deck) >= CardsDealt]_vars

\* C22 amended: the deal that follows the per-deal reset finds the full
\* deck and never takes the branch; the deal of a no-bidder restart finds
\* the deck empty and takes the branch for its first card; either deal hands
\* out every card of one deck once and leaves the deck empty
C22_RefillOnRedeal ==
    [][/\ DealByPlayGame =>
             (Len(deck) = CardsDealt /\ SeqSet(deck) = DeckCards)
       /\ DealByGetBids => deck = <<>>
       /\ (DealByPlayGame \/ DealByGetBids) => (deck' = <<>> /\ HandsDealt')]_vars

\* getBids has dealt again: the deck was replaced and dealt out, nobody has
\* answered the new bid prompts
C22_Witness ==
    /\ redeals > 0 /\ pc = "bid" /\ bidIdx = 1 /\ tricks = 0
    /\ deck = <<>> /\ CardsInHands = DeckCards
    /\ \A p \in Seats : bids[p] = NoBid /\ Len(hands[p]) = CardsPerHand

\* C23: the two match totals change only in the scoring step, which
\* follows the last trick of a deal; dealing, bidding, refused inputs, the
\* trump choice, a played card, a determined trick, a no-bidder re-deal and
\* the per-deal reset leave both as they were
C23_TotalsOnlyAtScoring ==
    [][/\ ~Scoring => scores' = scores
       /\ Scoring => (AllHandsEmpty /\ playedCards = <<>> /\ out.event = "played")]_vars

\* the totals of the scored deal are still there in the next deal, after a
\* re-deal and a trick
C23_Witness ==
    /\ scores = <<0 - MinBid, RoundsPerDeal - 1>>
    /\ deals = 1 /\ redeals = 1 /\ tricks = 1 /\ pc = "trump"

\* C24: when a deal after the first starts, before any card is dealt, all
\* hands are empty, no player has a bid, the running highest bid and its
\* holder, the trump suit, the lead suit and the previous winner are unset,
\* both trick tallies are 0, no card is played, the round counter is 0, the
\* players sit in the order Player 1..4 and the deck is full
C24_DealStartsReset ==
    pc = "deal" =>
        /\ AllHandsEmpty
        /\ \A p \in Seats : bids[p] = NoBid
        /\ highestBid = [bid |-> NoBid, player |-> NoPlayer]
        /\ trump = NoSuit /\ firstPlayedSuit = NoSuit /\ prevWinner = NoPlayer
        /\ curScores = <<0, 0>> /\ playedCards = <<>> /\ round = 0
        /\ players = <<1, 2, 3, 4>>
        /\ Len(deck) = DeckSize /\ SeqSet(deck) = DeckCards

\* the reset after a scored deal: the totals are those of that deal
C24_Witness ==
    /\ pc = "deal" /\ out.event = "reset" /\ TrickSeen
    /\ scores # <<0, 0>> /\ round = 0 /\ AllHandsEmpty

\* the positions of self.players whose answer getBids has taken in the
\* running bidding round
BidsTaken == IF pc = "bid" THEN bidIdx - 1 ELSE Len(players)

\* those of them that made a numeric bid
NumericBidders == {k \in 1..BidsTaken : bids[players[k]] # NoBid}

\* the last of them
LastBidder == CHOOSE k \in NumericBidders : \A j \in NumericBidders : j <= k

\* C25: during a bidding round the running highest bid changes only to a
\* strictly greater value, made by the player who is answering; at every
\* moment it is the maximum of the numeric bids taken so far in the round
\* and its holder is the player who made it, who is the last player that
\* made a numeric bid
C25_HighestBidRuns ==
    /\ []((pc = "bid" \/ (pc = "trump" /\ tricks = 0)) =>
            IF NumericBidders = {}
            THEN highestBid = [bid |-> NoBid, player |-> NoPlayer]
            ELSE /\ highestBid.player = players[LastBidder]
                 /\ highestBid.bid = bids[players[LastBidder]]
                 /\ \A j \in NumericBidders :
                       /\ bids[players[j]] <= highestBid.bid
                       /\ j < LastBidder => bids[players[j]] < highestBid.bid)
    /\ [][(pc = "bid" /\ highestBid' # highestBid) =>
             /\ highestBid'.bid > highestBid.bid
             /\ highestBid'.player = players[bidIdx]
             /\ out'.event = "bids" /\ out'.num = highestBid'.bid]_vars

\* Player 1 has bid 7, Player 2 has bid 13 and won the bid, the others passed
C25_Witness ==
    /\ pc = "trump" /\ tricks = 0 /\ players = <<1, 2, 3, 4>>
    /\ bids = <<MinBid, MaxBid, NoBid, NoBid>>
    /\ highestBid = [bid |-> MaxBid, player |-> 2]

\* C26: whenever a card can be played or the deal is scored, the loop of
\* getBids has run over all four players, each accepted answer having moved
\* it on by one player; the running highest bid is a number in 7..13 held by
\* a player whose own bid it is, and the trump suit is one of h, s, d, c
C26_BidSetBeforePlay ==
    /\ []((pc = "card" \/ pc = "score") =>
            /\ bidIdx = Len(players)
            /\ highestBid.bid \in MinBid..MaxBid
            /\ highestBid.player \in Seats
            /\ bids[highestBid.player] = highestBid.bid
            /\ trump \in SuitSet)
    /\ [][(pc = "bid" /\ out'.event \in {"bids", "passes"} /\ out' # out) =>
             /\ out'.player = players[bidIdx]
             /\ bids'[out'.player] = out'.num
             /\ IF bidIdx < Len(players)
                THEN pc' = "bid" /\ bidIdx' = bidIdx + 1 /\ players' = players
                ELSE \/ pc' = "trump" /\ highestBid'.bid # NoBid
                     \/ /\ redeals' = redeals + 1 /\ highestBid'.bid = NoBid
                        /\ pc' = "bid" /\ bidIdx' = 1]_vars
    /\ [][(pc' = "card" /\ pc # "card") => (pc = "trump" \/ playedCards' = <<>>)]_vars

\* the second card of the first trick is awaited after a bidding round in
\* which only the fourth player bid
C26_Witness ==
    /\ pc = "card" /\ Len(playedCards) = 1 /\ tricks = 0 /\ redeals = 0
    /\ highestBid = [bid |-> MaxBid, player |-> 4]
    /\ bids = <<NoBid, NoBid, NoBid, MaxBid>> /\ trump = "c"

\* C27: each determined trick adds exactly 1 to the tally of the winner's
\* team, the first tally for Player 1 and Player 3 and the second for
\* Player 2 and Player 4, whoever won the bid, and leaves the other tally;
\* the two tallies sum to the number of tricks determined in the deal
C27_TallyPerTrick ==
    /\ [](curScores[1] + curScores[2] = tricks)
    /\ [][tricks' = tricks + 1 =>
             /\ prevWinner' = lastTrick'.winner
             /\ prevWinner' \in {1, 3} =>
                    curScores' = <<curScores[1] + 1, curScores[2]>>
             /\ prevWinner' \in {2, 4} =>
                    curScores' = <<curScores[1], curScores[2] + 1>>]_vars
    /\ [][curScores' # curScores => (tricks' = tricks + 1 \/ pc = "loop")]_vars

\* Player 1 won the bid and Player 4 the first trick, which counts for the
\* second team
C27_Witness ==
    /\ tricks = 1 /\ highestBid.player = 1 /\ prevWinner = 4
    /\ curScores = <<0, 1>> /\ lastTrick.winner = 4

\* the seat after seat p in the order Player 1 -> 2 -> 3 -> 4 -> 1
NextSeat(p) == (p % 4) + 1

\* the players named in the sequence s of (card, player) pairs follow each
\* other in seat order
InSeatOrder(s) == \A k \in 1..(Len(s) - 1) : s[k + 1].player = NextSeat(s[k].player)

\* the players who have played in the running trick
HavePlayed == {playedCards[k].player : k \in 1..Len(playedCards)}

\* C28: in every trick each of the four players plays exactly one card, in
\* seat order from the trick's leader; when the trick ends no played card
\* is left and every hand is one card smaller than when the trick started
C28_OneCardEachInOrder ==
    /\ [](pc = "card" =>
            /\ InSeatOrder(playedCards)
            /\ \A k \in 1..Len(playedCards) : playedCards[k].player = players[k]
            /\ Len(playedCards) < Len(players)
            /\ playedCards # <<>> =>
                   Current = NextSeat(playedCards[Len(playedCards)].player)
            /\ \A p \in Seats :
                  Len(hands[p]) = CardsPerHand - tricks
                                  - (IF p \in HavePlayed THEN 1 ELSE 0))
    /\ [](TrickSeen =>
            /\ Len(lastTrick.cards) = 4
            /\ InSeatOrder(lastTrick.cards)
            /\ {lastTrick.cards[k].player : k \in 1..4} = Seats)
    /\ [][tricks' = tricks + 1 =>
             /\ playedCards' = <<>>
             /\ Len(playedCards) = Len(players) - 1
             /\ \A p \in Seats : Len(hands'[p]) = CardsPerHand - tricks']_vars

\* the second trick, led by Player 3, has ended
C28_Witness ==
    /\ tricks = 2 /\ playedCards = <<>> /\ AllHandsEmpty
    /\ lastTrick.cards[1].player = 3 /\ lastTrick.cards[4].player = 2

\* C30: in every scored deal of 13 tricks exactly one team's total rises,
\* by between 1 and 13, and the other team's total is unchanged or falls
\* by the bid (at most 13); so when the match ends exactly one team has at
\* least 60, that total is at most 72, and the other team is below 60
C30_OneTeamGains ==
    /\ [][Scoring =>
             \E g \in 1..2 :
                LET o == 3 - g
                IN  /\ scores'[g] - scores[g] \in 1..13
                    /\ \/ scores'[o] = scores[o]
                       \/ /\ scores'[o] = scores[o] - highestBid.bid
                          /\ highestBid.bid \in 1..13]_vars
    /\ [](pc = "over" =>
            \E g \in 1..2 :
               /\ scores[g] >= 60 /\ scores[g] <= 72
               /\ scores[3 - g] < 60)

\* the match ends on the largest possible total: thirteen tricks bid and
\* taken on top of 59
C30_Witness ==
    /\ pc = "over" /\ scores = <<72, 0>>
    /\ curScores = <<13, 0>> /\ highestBid = [bid |-> 13, player |-> 3]

\* a failed bid of 13 with twelve tricks taken: the other team gains one
C30_FailWitness ==
    /\ pc = "loop" /\ out.event = "scored"
    /\ curScores = <<12, 1>> /\ highestBid = [bid |-> 13, player |-> 1]
    /\ scores = <<34, 54>>

\* C31: whenever the engine waits for a bid, a trump suit or a card, an
\* acceptable response exists, so that a started deal can go on to its
\* scoring step: a pass or a bid is taken at a bid prompt, a suit at the
\* trump prompt, and the player asked for a card holds a card and can play
\* one; also after no-bidder re-deals
C31_ResponseExists ==
    /\ pc = "bid" => \E r \in BidResponses : BidVerdict(r, highestBid.bid) = "ok"
    /\ pc = "trump" => \E t \in TrumpResponses : t \in {"h", "s", "d", "c"}
    /\ pc = "card" =>
          /\ hands[Current] # <<>>
          /\ \E r \in CardResponses : CardVerdict(r, Current) = "ok"

\* C31 without the restarted deals (what the code does keep)
C31_WithoutRestart == redeals = 0 => C31_ResponseExists

\* the deals without a restart do get to their scoring step
C31_ScoringReached == pc = "score" /\ redeals = 0 /\ tricks = RoundsPerDeal

\* after a re-deal the player asked for a card has none left
C31_EmptyHandPrompt ==
    /\ pc = "card" /\ redeals > 0 /\ hands[Current] = <<>>
    /\ tricks = RoundsPerDeal

\* a deal that was restarted never gets to its scoring step
C31_RestartNeverScored == redeals > 0 => pc # "score"

(***************************************************************************)
(* SpecHand: Hand.calculateCardValue of src/main.py.  hands[1] is          *)
(* self.cards of one Hand; out holds the card asked about and the value    *)
(* returned.                                                               *)
(***************************************************************************)
\* the ranks of the cards of a hand: both ends of the numbers and the four
\* named ranks
HandRanks == {"2", "10", "J", "Q", "K", "A"}

\* the cards a hand is drawn from (Game.generateDeck: rank and suit)
HandDeck == {Card(s, r) : s \in SuitSet, r \in HandRanks}

\* int(rankValue) for the ranks written as numbers, "2" to "10"
intOfRank(r) == CHOOSE n \in 2..10 : Ranks[n - 1] = r

\* calculateCardValue: the if / elif chain on card["rank"]
handRankValue(r) ==
    IF r = "J" THEN 11
    ELSE IF r = "Q" THEN 12
    ELSE IF r = "K" THEN 13
    ELSE IF r = "A" THEN 15
    ELSE intOfRank(r)

\* calculateCardValue: len([card for card in self.cards
\*                          if card["suit"] == card["suit"]]);
\* inside the comprehension the name card is the element of self.cards, on
\* both sides of ==, and not the argument
numCardsWithSameSuit(cards, card) ==
    Cardinality({k \in 1..Len(cards) : cards[k].suit = cards[k].suit})

\* Hand.calculateCardValue(card) on self.cards = cards
calculateCardValue(cards, card) ==
    handRankValue(card.rank) * numCardsWithSameSuit(cards, card)

\* Hand(cards, bid): a list of one to MaxHandCards different cards
InitHand ==
    /\ pc = "hand"
    /\ \E cards \in UNION {[1..n -> HandDeck] : n \in 1..MaxHandCards} :
         /\ \A i, j \in 1..Len(cards) : i # j => cards[i] # cards[j]
         /\ hands = [NewHands EXCEPT ![PlayerNames[1]] = cards]
    /\ deck = <<>>
    /\ scores = <<0, 0>>
    /\ isOver = FALSE
    /\ round = 0
    /\ firstPlayedSuit = NoSuit
    /\ trump = NoSuit
    /\ prevWinner = NoPlayer
    /\ curScores = <<0, 0>>
    /\ playedCards = <<>>
    /\ highestBid = [bid |-> NoBid, player |-> NoPlayer]
    /\ players = PlayerNames
    /\ bids = [p \in Seats |-> NoBid]
    /\ bidIdx = 0
    /\ depth = 0
    /\ deals = 0
    /\ redeals = 0
    /\ tricks = 0
    /\ discard = {}
    /\ lastTrick = NoTrick
    /\ out = Out("", NoPlayer, 0, NoCard, NoSuit)

\* self.calculateCardValue(card) for a card of self.cards
CalculateCardValue ==
    /\ pc = "hand"
    /\ LET p == PlayerNames[1]
       IN  \E k \in 1..Len(hands[p]) :
             out' = Out("value", p, calculateCardValue(hands[p], hands[p][k]),
                        hands[p][k], NoSuit)
    /\ UNCHANGED <<pc, scores, isOver, deck, round, firstPlayedSuit, trump,
                   prevWinner, curScores, playedCards, highestBid, players, hands,
                   bids, bidIdx, depth, deals, redeals, tricks, discard, lastTrick>>

NextHand == CalculateCardValue

SpecHand == InitHand /\ [][NextHand]_vars

\* the rank values of the documentation of calculateCardValue
StatedRankValue(r) ==
    CASE r = "J" -> 11 [] r = "Q" -> 12 [] r = "K" -> 13 [] r = "A" -> 15
      [] OTHER -> rankOrder(r) + 1

\* the cards of the sequence cards that have the suit s
CardsOfSuit(cards, s) == {k \in 1..Len(cards) : cards[k].suit = s}

\* C32: calculateCardValue(card) returns the rank value of the card (2-10
\* as is, J=11, Q=12, K=13, A=15) times the number of cards of the hand
\* that have the suit of that card
C32_ValueBySuitCount ==
    (pc = "hand" /\ out.event = "value") =>
        out.num = StatedRankValue(out.card.rank)
                    * Cardinality(CardsOfSuit(hands[out.player], out.card.suit))

\* what the code returns: the rank value times the size of the hand
C32_ValueByHandSize ==
    (pc = "hand" /\ out.event = "value") =>
        out.num = StatedRankValue(out.card.rank) * Len(hands[out.player])

\* C32 on the hands of one suit, where the two counts agree
C32_OneSuitHands ==
    (\A k \in 1..Len(hands[PlayerNames[1]]) :
         hands[PlayerNames[1]][k].suit = hands[PlayerNames[1]][1].suit)
        => C32_ValueBySuitCount

\* the value of an ace asked of a hand of two suits
C32_TwoSuits ==
    /\ pc = "hand" /\ out.event = "value" /\ out.card = Card("h", "A")
    /\ hands[PlayerNames[1]] = <<Card("h", "A"), Card("s", "2")>>
    /\ out.num = 30

====
